---- MODULE Spec2Model ----
(***************************************************************************)
(* A model of the soccer-shpost-llm data collection scripts:               *)
(*   src/reddit_scraper.py   redact_text, extract_top_comments,            *)
(*                           scrape_subreddit                              *)
(*   src/dataset_merger.py   the merge script                              *)
(*                                                                         *)
(* Text is a sequence of one-character strings, so that str.replace,       *)
(* str.strip and str.lower are computed character by character.            *)
(* A Python value that may be None is a sequence of length 0 or 1:         *)
(* None is << >> and a present value v is << v >>.                         *)
(***************************************************************************)
EXTENDS Integers, Sequences, FiniteSets, TLC

VARIABLES
    \* ---- redact_text applied once and twice
    rPc, rText, rOnce, rTwice,
    \* ---- one call of extract_top_comments
    ePc, ePost, eN, eOut,
    \* ---- one run of scrape_subreddit
    pc, creds, sortArg, timeFilter, limit, topN, listing, sortWarned, loopPost,
    jsonl, jsonlClosed, rows, count, errors, warnings, visited, csv, saved,
    \* ---- one run of dataset_merger.py
    mPc, linesep, disk, mIdx, outfile, printed

redactVars  == <<rPc, rText, rOnce, rTwice>>
extractVars == <<ePc, ePost, eN, eOut>>
scrapeVars  == <<pc, creds, sortArg, timeFilter, limit, topN, listing,
                 sortWarned, loopPost, jsonl, jsonlClosed, rows, count, errors, warnings, visited,
                 csv, saved>>
mergeVars   == <<mPc, linesep, disk, mIdx, outfile, printed>>
vars        == <<redactVars, extractVars, scrapeVars, mergeVars>>

(***************************************************************************)
(* Bounds of the model.                                                    *)
(***************************************************************************)
\* pieces a redact_text input is put together from
MaxPieces == 3
\* top-level comments of the post given to extract_top_comments
MaxComments == 2
\* largest top_n
MaxTopN == 2
\* largest result cap (limit) of a scrape run
MaxLimit == 3

(***************************************************************************)
(* Python values.                                                          *)
(***************************************************************************)
None == << >>

Some(v) == << v >>

IsNone(o) == o = << >>

\* Python truthiness of an optional string: None and "" are falsy.
Falsy(o) == IsNone(o) \/ o[1] = << >>

Min(a, b) == IF a < b THEN a ELSE b

Max(a, b) == IF a < b THEN b ELSE a

(***************************************************************************)
(* Text.                                                                   *)
(***************************************************************************)
Deleted == <<"[", "d", "e", "l", "e", "t", "e", "d", "]">>

Removed == <<"[", "r", "e", "m", "o", "v", "e", "d", "]">>

\* the characters str.strip() removes (among those the model uses)
Whitespace == {" ", "\n", "\r", "\t"}

UpperCase == <<"A", "B", "C", "D", "E", "F", "G", "H", "I", "J", "K", "L", "M",
               "N", "O", "P", "Q", "R", "S", "T", "U", "V", "W", "X", "Y", "Z">>

LowerCase == <<"a", "b", "c", "d", "e", "f", "g", "h", "i", "j", "k", "l", "m",
               "n", "o", "p", "q", "r", "s", "t", "u", "v", "w", "x", "y", "z">>

LowerChar(c) ==
    IF \E i \in 1..Len(UpperCase) : UpperCase[i] = c
    THEN LowerCase[CHOOSE i \in 1..Len(UpperCase) : UpperCase[i] = c]
    ELSE c

\* str.lower()
Lower(s) == [i \in 1..Len(s) |-> LowerChar(s[i])]

Drop(s, n) == SubSeq(s, n + 1, Len(s))

StartsWith(s, p) == Len(s) >= Len(p) /\ SubSeq(s, 1, Len(p)) = p

\* str.replace(old, new): one left-to-right pass over non-overlapping
\* occurrences; the text produced is not scanned again.
RECURSIVE Replace(_, _, _)
Replace(s, old, new) ==
    IF Len(s) < Len(old) THEN s
    ELSE IF StartsWith(s, old) THEN new \o Replace(Drop(s, Len(old)), old, new)
    ELSE <<Head(s)>> \o Replace(Tail(s), old, new)

RECURSIVE LStrip(_)
LStrip(s) ==
    IF s # << >> /\ Head(s) \in Whitespace THEN LStrip(Tail(s)) ELSE s

RECURSIVE RStrip(_)
RStrip(s) ==
    IF s # << >> /\ s[Len(s)] \in Whitespace
    THEN RStrip(SubSeq(s, 1, Len(s) - 1)) ELSE s

\* str.strip()
Strip(s) == RStrip(LStrip(s))

RECURSIVE Concat(_)
Concat(ss) == IF ss = << >> THEN << >> ELSE Head(ss) \o Concat(Tail(ss))

\* separator.join(parts)
RECURSIVE Join(_, _)
Join(sep, parts) ==
    IF parts = << >> THEN << >>
    ELSE IF Len(parts) = 1 THEN parts[1]
    ELSE parts[1] \o sep \o Join(sep, Tail(parts))

(***************************************************************************)
(* redact_text                                                             *)
(***************************************************************************)
RedactText(text) ==
    IF Falsy(text) THEN << >>
    ELSE Strip(Replace(Replace(text[1], Deleted, << >>), Removed, << >>))

\* the pieces the inputs of redact_text are put together from
Fragments ==
    { Deleted, Removed,
      <<"[", "d", "e", "l">>, <<"e", "t", "e", "d", "]">>,
      <<" ">>, <<"a">>, <<"\n">> }

RECURSIVE Pieces(_)
Pieces(n) ==
    IF n = 0 THEN { << >> }
    ELSE Pieces(n - 1) \cup { p \o f : p \in Pieces(n - 1), f \in Fragments }

RedactInputs == { None } \cup { Some(s) : s \in Pieces(MaxPieces) }

IdleRedact == rPc = "idle" /\ rText = None /\ rOnce = << >> /\ rTwice = << >>

InitRedact0 ==
    /\ rPc = "input"
    /\ rText \in RedactInputs
    /\ rOnce = << >>
    /\ rTwice = << >>

RedactOnce ==
    /\ rPc = "input"
    /\ rOnce' = RedactText(rText)
    /\ rPc' = "once"
    /\ UNCHANGED <<rText, rTwice>>

RedactTwice ==
    /\ rPc = "once"
    /\ rTwice' = RedactText(Some(rOnce))
    /\ rPc' = "twice"
    /\ UNCHANGED <<rText, rOnce>>

(***************************************************************************)
(* extract_top_comments                                                    *)
(*                                                                         *)
(* A post is [comments, replaceMoreFails, commentsFail]: the top-level     *)
(* nodes the provider lists, whether post.comments.replace_more raises and *)
(* whether iterating post.comments raises. A node is                       *)
(* [id, more, body, score]: more marks a MoreComments placeholder, body    *)
(* and score are optional values. created_utc and is_submitter are copied  *)
(* through unread by any decision and are left out.                        *)
(***************************************************************************)
Sentinels == { Deleted, Removed }

\* Skipped comparing the body without lowercasing it
Skipped_CaseSensitive(c) ==
    \/ c.more
    \/ Falsy(c.body)
    \/ Strip(c.body[1]) \in Sentinels

\* lines 75-81: the nodes extract_top_comments skips
Skipped(c) ==
    \/ c.more
    \/ Falsy(c.body)
    \/ Lower(Strip(c.body[1])) \in Sentinels

\* lines 82-90: the record appended for a kept node
CommentRecord(c) ==
    [id |-> c.id, body |-> RedactText(c.body), score |-> c.score]

\* lines 74-90: the loop over post.comments
RECURSIVE Collect(_)
Collect(cs) ==
    IF cs = << >> THEN << >>
    ELSE IF Skipped(Head(cs)) THEN Collect(Tail(cs))
    ELSE <<CommentRecord(Head(cs))>> \o Collect(Tail(cs))

\* line 94: the sort key
ScoreKey(x) == IF IsNone(x.score) THEN 0 ELSE x.score[1]

\* InsertDesc putting x before the elements of equal key
RECURSIVE InsertDesc_TiesFirst(_, _)
InsertDesc_TiesFirst(sorted, x) ==
    IF sorted = << >> THEN <<x>>
    ELSE IF ScoreKey(Head(sorted)) > ScoreKey(x)
         THEN <<Head(sorted)>> \o InsertDesc_TiesFirst(Tail(sorted), x)
         ELSE <<x>> \o sorted

\* sorted(..., reverse=True) is stable: x goes after every element whose key
\* is at least its own.
RECURSIVE InsertDesc(_, _)
InsertDesc(sorted, x) ==
    IF sorted = << >> THEN <<x>>
    ELSE IF ScoreKey(Head(sorted)) >= ScoreKey(x)
         THEN <<Head(sorted)>> \o InsertDesc(Tail(sorted), x)
         ELSE <<x>> \o sorted

\* lines 92-96
RECURSIVE SortedDesc(_)
SortedDesc(cs) ==
    IF cs = << >> THEN << >>
    ELSE InsertDesc(SortedDesc(SubSeq(cs, 1, Len(cs) - 1)), cs[Len(cs)])

\* line 97: comments[:top_n], also for a negative top_n
SliceTo(cs, n) ==
    IF n >= 0 THEN SubSeq(cs, 1, Min(n, Len(cs)))
    ELSE SubSeq(cs, 1, Max(Len(cs) + n, 0))

\* ExtractTopComments without the try around replace_more
ExtractTopComments_NoTry(post, top_n) ==
    IF post.replaceMoreFails \/ post.commentsFail
    THEN [raised |-> TRUE, warned |-> FALSE, result |-> << >>]
    ELSE [raised |-> FALSE, warned |-> FALSE,
          result |-> SliceTo(SortedDesc(Collect(post.comments)), top_n)]

\* lines 67-97. raised: an exception leaves the function; warned: the
\* replace_more warning of line 72 was logged. A failure of replace_more is
\* caught (lines 69-72); the loop over post.comments is outside that try.
ExtractTopComments(post, top_n) ==
    IF post.commentsFail
    THEN [raised |-> TRUE, warned |-> post.replaceMoreFails, result |-> << >>]
    ELSE [raised |-> FALSE, warned |-> post.replaceMoreFails,
          result |-> SliceTo(SortedDesc(Collect(post.comments)), top_n)]

\* the bodies and scores of the nodes the model lists
Bodies ==
    { None, Some(<< >>), Some(<<" ">>), Some(<<"o", "k">>), Some(Deleted),
      Some(<<" ">> \o <<"[", "R", "e", "m", "o", "v", "e", "d", "]">> \o <<"\n">>),
      Some(Removed \o <<" ">> \o <<"o", "k">>) }

Scores == { None, Some(0), Some(1) }

NodeShapes ==
    { [more |-> FALSE, body |-> b, score |-> s] : b \in Bodies, s \in Scores }
    \cup { [more |-> TRUE, body |-> None, score |-> None] }

\* the provider gives every node its own id: here its position
NodeLists ==
    UNION { { [i \in 1..n |-> [id |-> i, more |-> f[i].more, body |-> f[i].body,
                               score |-> f[i].score]] :
              f \in [1..n -> NodeShapes] } : n \in 0..MaxComments }

ExtractPosts ==
    { [comments |-> cs, replaceMoreFails |-> rf, commentsFail |-> cf] :
      cs \in NodeLists, rf \in BOOLEAN, cf \in BOOLEAN }

NoOut == [raised |-> FALSE, warned |-> FALSE, result |-> << >>]

NoPost == [comments |-> << >>, replaceMoreFails |-> FALSE, commentsFail |-> FALSE]

IdleExtract == ePc = "idle" /\ ePost = NoPost /\ eN = 0 /\ eOut = NoOut

InitExtract0 ==
    /\ ePc = "call"
    /\ ePost \in ExtractPosts
    /\ eN \in -1..MaxTopN
    /\ eOut = NoOut

Extract ==
    /\ ePc = "call"
    /\ eOut' = ExtractTopComments(ePost, eN)
    /\ ePc' = IF eOut'.raised THEN "raised" ELSE "returned"
    /\ UNCHANGED <<ePost, eN>>

(***************************************************************************)
(* scrape_subreddit                                                        *)
(*                                                                         *)
(* A post of a listing is [id, title, titleRaises, comments,               *)
(* replaceMoreFails, commentsFail]: titleRaises says that reading          *)
(* post.title raises. selftext, score, created_utc, num_comments and       *)
(* permalink are copied into the record by getattr with a default, decide  *)
(* nothing and are left out.                                               *)
(***************************************************************************)
SortTop == <<"t", "o", "p">>

SortHot == <<"h", "o", "t">>

SortNew == <<"n", "e", "w">>

SortRising == <<"r", "i", "s", "i", "n", "g">>

SortModes == { SortTop, SortHot, SortNew, SortRising }

\* ChooseListing falling back to the hot listing
ChooseListing_FallbackHot(sort, time_filter, lim) ==
    LET s == Lower(sort) IN
    IF s = SortTop
    THEN [method |-> "top", time_filter |-> Some(time_filter), limit |-> lim,
          warned |-> FALSE]
    ELSE IF s = SortNew
    THEN [method |-> "new", time_filter |-> None, limit |-> lim, warned |-> FALSE]
    ELSE IF s = SortRising
    THEN [method |-> "rising", time_filter |-> None, limit |-> lim,
          warned |-> FALSE]
    ELSE [method |-> "hot", time_filter |-> None, limit |-> lim, warned |-> FALSE]

\* lines 116-128: the listing asked of the provider. time_filter goes to
\* sub.top only.
ChooseListing(sort, time_filter, lim) ==
    LET s == Lower(sort) IN
    IF s = SortTop
    THEN [method |-> "top", time_filter |-> Some(time_filter), limit |-> lim,
          warned |-> FALSE]
    ELSE IF s = SortHot
    THEN [method |-> "hot", time_filter |-> None, limit |-> lim, warned |-> FALSE]
    ELSE IF s = SortNew
    THEN [method |-> "new", time_filter |-> None, limit |-> lim, warned |-> FALSE]
    ELSE IF s = SortRising
    THEN [method |-> "rising", time_filter |-> None, limit |-> lim,
          warned |-> FALSE]
    ELSE [method |-> "top", time_filter |-> Some(time_filter), limit |-> lim,
          warned |-> TRUE]

\* lines 142-156: post_data
PostData(post, title, top) == [id |-> post.id, title |-> title, top_comments |-> top]

\* line 165: the line breaks taken out of a comment body
NoLineBreaks(body) == Replace(Replace(body, <<"\n">>, << >>), <<"\r">>, << >>)

\* lines 163-168
CommentsFlat(top) ==
    Join(<<" ", "|", "|", "|", " ">>, [i \in 1..Len(top) |-> NoLineBreaks(top[i].body)])

\* lines 169-180
CsvRow(post_data) ==
    [id |-> post_data.id, title |-> post_data.title,
     top_comments |-> CommentsFlat(post_data.top_comments)]

\* Emitted testing the raw title instead of the sanitized one
Emitted_RawTitle(post, title) == ~Falsy(post.title)

\* line 158: whether the record is written
Emitted(post, title) == title # << >>

\* WriteRecord appending the row before the JSONL write
WriteRecord_RowFirst(st, post_data) ==
    IF st.closed
    THEN [raised |-> TRUE, cause |-> "closed",
          st |-> [st EXCEPT !.rows = Append(@, CsvRow(post_data))]]
    ELSE [raised |-> FALSE, cause |-> "",
          st |-> [st EXCEPT !.jsonl = Append(@, post_data),
                            !.rows = Append(@, CsvRow(post_data)),
                            !.count = @ + 1]]

\* lines 160-182: jsonl_f.write raises ValueError on a closed file, before
\* the row is appended and the count raised.
WriteRecord(st, post_data) ==
    IF st.closed
    THEN [raised |-> TRUE, cause |-> "closed", st |-> st]
    ELSE [raised |-> FALSE, cause |-> "",
          st |-> [st EXCEPT !.jsonl = Append(@, post_data),
                            !.rows = Append(@, CsvRow(post_data)),
                            !.count = @ + 1]]

\* lines 141-182: the body of the try
TryPost(st, post, top_n) ==
    IF post.titleRaises
    THEN [raised |-> TRUE, cause |-> "title", st |-> st]
    ELSE
        LET title == RedactText(post.title)
            ex    == ExtractTopComments(post, top_n)
            st1   == [st EXCEPT !.warnings = @ + (IF ex.warned THEN 1 ELSE 0)]
        IN  IF ex.raised
            THEN [raised |-> TRUE, cause |-> "comments", st |-> st1]
            ELSE IF Emitted(post, title)
            THEN WriteRecord(st1, PostData(post, title, ex.result))
            ELSE [raised |-> FALSE, cause |-> "", st |-> st1]

\* OnPostError leaving the JSONL file open (skip and continue)
OnPostError_KeepOpen(st, post, cause) ==
    [st EXCEPT !.errors = Append(@, [id |-> post.id, cause |-> cause])]

\* lines 185-191: the handler closes the JSONL file, logs and goes on
OnPostError(st, post, cause) ==
    [st EXCEPT !.closed = TRUE,
               !.errors = Append(@, [id |-> post.id, cause |-> cause])]

\* lines 140-191: one pass of the loop body
ProcessOne(st, post, top_n) ==
    LET r == TryPost(st, post, top_n) IN
    IF r.raised THEN OnPostError(r.st, post, r.cause) ELSE r.st

Titles == { Some(<<"a">>), Some(Deleted \o <<" ">>), None }

Node(i, body, score) == [id |-> i, more |-> FALSE, body |-> Some(body), score |-> score]

\* the comments of a post of the listing: none, or two of them
ScrapeNodes(t) ==
    IF Falsy(t) THEN << >>
    ELSE << Node(1, <<"o", "\n", "k">>, Some(0)), Node(2, <<"u", "p">>, Some(1)) >>

\* (titleRaises, replaceMoreFails, commentsFail)
Faults ==
    { <<FALSE, FALSE, FALSE>>, <<TRUE, FALSE, FALSE>>,
      <<FALSE, TRUE, FALSE>>, <<FALSE, FALSE, TRUE>> }

ScrapePosts(i) ==
    { [id |-> i, title |-> t, titleRaises |-> f[1], comments |-> ScrapeNodes(t),
       replaceMoreFails |-> f[2], commentsFail |-> f[3]] :
      t \in Titles, f \in Faults }

SortInputs ==
    SortModes \cup { <<"b", "o", "g", "u", "s">>, <<"H", "O", "T">>, <<"T", "o", "p">> }

TimeFilters == { "all", "year" }

NoListing == [method |-> "", time_filter |-> None, limit |-> 0, warned |-> FALSE]

\* no post yet
NoScrapePost ==
    [id |-> 0, title |-> None, titleRaises |-> FALSE, comments |-> << >>,
     replaceMoreFails |-> FALSE, commentsFail |-> FALSE]

\* nothing opened, written or logged
NoOutput ==
    /\ listing = NoListing
    /\ sortWarned = FALSE
    /\ loopPost = NoScrapePost
    /\ jsonl = None
    /\ jsonlClosed = TRUE
    /\ rows = << >>
    /\ count = 0
    /\ errors = << >>
    /\ warnings = 0
    /\ visited = 0
    /\ csv = None
    /\ saved = None

IdleScrape ==
    /\ pc = "idle"
    /\ creds = FALSE
    /\ sortArg = << >>
    /\ timeFilter = ""
    /\ limit = 0
    /\ topN = 0
    /\ NoOutput

\* scrape_subreddit is about to be called with its arguments (lines 100-107);
\* creds: REDDIT_CLIENT_ID and REDDIT_CLIENT_SECRET are set (lines 32-36)
InitScrape0 ==
    /\ pc = "start"
    /\ creds \in BOOLEAN
    /\ sortArg \in SortInputs
    /\ timeFilter \in TimeFilters
    /\ limit \in 0..MaxLimit
    /\ topN \in { MaxTopN - 1, MaxTopN }
    /\ NoOutput

\* lines 56-58, 108: without credentials init_reddit_creds raises and the
\* run ends before any file is opened
StartNoCreds ==
    /\ pc = "start"
    /\ ~creds
    /\ pc' = "fatal"
    /\ UNCHANGED <<creds, sortArg, timeFilter, limit, topN, listing, sortWarned,
                   loopPost, jsonl, jsonlClosed, rows, count, errors, warnings,
                   visited, csv, saved>>

\* lines 108-136
Start ==
    /\ pc = "start"
    /\ creds
    /\ listing' = ChooseListing(sortArg, timeFilter, limit)
    /\ sortWarned' = listing'.warned
    /\ jsonl' = Some(<< >>)
    /\ jsonlClosed' = FALSE
    /\ rows' = << >>
    /\ count' = 0
    /\ pc' = "loop"
    /\ UNCHANGED <<creds, sortArg, timeFilter, limit, topN, loopPost, errors,
                   warnings, visited, csv, saved>>

\* the state the loop body works on
LoopState ==
    [jsonl |-> jsonl[1], closed |-> jsonlClosed, rows |-> rows, count |-> count,
     errors |-> errors, warnings |-> warnings]

\* lines 137-191: the provider yields one more post, at most listing.limit
\* of them, and the loop body runs on it
ProcessPost ==
    /\ pc = "loop"
    /\ visited < listing.limit
    /\ \E p \in ScrapePosts(visited + 1) :
        LET st == ProcessOne(LoopState, p, topN) IN
        /\ loopPost' = p
        /\ jsonl' = Some(st.jsonl)
        /\ jsonlClosed' = st.closed
        /\ rows' = st.rows
        /\ count' = st.count
        /\ errors' = st.errors
        /\ warnings' = st.warnings
    /\ visited' = visited + 1
    /\ UNCHANGED <<pc, creds, sortArg, timeFilter, limit, topN, listing,
                   sortWarned, csv, saved>>

\* lines 193-198: the listing is exhausted
Finish ==
    /\ pc = "loop"
    /\ jsonlClosed' = TRUE
    /\ csv' = Some(rows)
    /\ saved' = Some(count)
    /\ pc' = "done"
    /\ UNCHANGED <<creds, sortArg, timeFilter, limit, topN, listing, sortWarned,
                   loopPost, jsonl, rows, count, errors, warnings, visited>>

(***************************************************************************)
(* dataset_merger.py                                                       *)
(*                                                                         *)
(* disk[i] is the content of the i-th input file, None when it cannot be   *)
(* read. Both files are opened in text mode with the default newline       *)
(* handling: reading turns "\r\n" and a lone "\r" into "\n", writing turns *)
(* "\n" into os.linesep.                                                   *)
(***************************************************************************)
\* len(files)
NumFiles == 5

LF == <<"\n">>

CRLF == <<"\r", "\n">>

\* infile.read() of a file opened with newline=None
RECURSIVE ReadText(_)
ReadText(bytes) ==
    IF bytes = << >> THEN << >>
    ELSE IF StartsWith(bytes, CRLF) THEN LF \o ReadText(Drop(bytes, 2))
    ELSE IF Head(bytes) = "\r" THEN LF \o ReadText(Tail(bytes))
    ELSE <<Head(bytes)>> \o ReadText(Tail(bytes))

\* outfile.write(text) of a file opened with newline=None
WriteText(text, sep) == Replace(text, LF, sep)

\* MergedPart without the newline written after the file
MergedPart_NoNewline(bytes, sep) == WriteText(ReadText(bytes), sep)

\* lines 14-16: one input file copied
MergedPart(bytes, sep) == WriteText(ReadText(bytes), sep) \o WriteText(LF, sep)

FileContents ==
    { None, Some(<< >>), Some(<<"a", "\n">>), Some(<<"a", "\r", "\n">>),
      Some(<<"a", "\r", "b">>) }

IdleMerge ==
    /\ mPc = "idle"
    /\ linesep = LF
    /\ disk = << >>
    /\ mIdx = 0
    /\ outfile = None
    /\ printed = None

InitMerge0 ==
    /\ mPc = "open"
    /\ linesep \in { LF, CRLF }
    /\ disk \in [1..NumFiles -> FileContents]
    /\ mIdx = 0
    /\ outfile = None
    /\ printed = None

\* line 12
MergeOpen ==
    /\ mPc = "open"
    /\ outfile' = Some(<< >>)
    /\ mIdx' = 1
    /\ mPc' = "copy"
    /\ UNCHANGED <<linesep, disk, printed>>

\* lines 13-16, a readable input
MergeFile ==
    /\ mPc = "copy"
    /\ mIdx <= NumFiles
    /\ ~IsNone(disk[mIdx])
    /\ outfile' = Some(outfile[1] \o MergedPart(disk[mIdx][1], linesep))
    /\ mIdx' = mIdx + 1
    /\ UNCHANGED <<mPc, linesep, disk, printed>>

\* line 14: open() raises, the script ends with what was written so far
MergeFail ==
    /\ mPc = "copy"
    /\ mIdx <= NumFiles
    /\ IsNone(disk[mIdx])
    /\ mPc' = "failed"
    /\ UNCHANGED <<linesep, disk, mIdx, outfile, printed>>

\* line 18
MergeReport ==
    /\ mPc = "copy"
    /\ mIdx > NumFiles
    /\ printed' = Some(NumFiles)
    /\ mPc' = "done"
    /\ UNCHANGED <<linesep, disk, mIdx, outfile>>

(***************************************************************************)
(* Specifications.                                                         *)
(***************************************************************************)
InitRedact == InitRedact0 /\ IdleExtract /\ IdleScrape /\ IdleMerge

NextRedact ==
    \/ RedactOnce /\ UNCHANGED <<extractVars, scrapeVars, mergeVars>>
    \/ RedactTwice /\ UNCHANGED <<extractVars, scrapeVars, mergeVars>>

SpecRedact == InitRedact /\ [][NextRedact]_vars

InitExtract == IdleRedact /\ InitExtract0 /\ IdleScrape /\ IdleMerge

NextExtract == Extract /\ UNCHANGED <<redactVars, scrapeVars, mergeVars>>

SpecExtract == InitExtract /\ [][NextExtract]_vars

InitScrape == IdleRedact /\ IdleExtract /\ InitScrape0 /\ IdleMerge

NextScrape ==
    \/ StartNoCreds /\ UNCHANGED <<redactVars, extractVars, mergeVars>>
    \/ Start /\ UNCHANGED <<redactVars, extractVars, mergeVars>>
    \/ ProcessPost /\ UNCHANGED <<redactVars, extractVars, mergeVars>>
    \/ Finish /\ UNCHANGED <<redactVars, extractVars, mergeVars>>

SpecScrape == InitScrape /\ [][NextScrape]_vars

InitMerge == IdleRedact /\ IdleExtract /\ IdleScrape /\ InitMerge0

NextMerge ==
    \/ MergeOpen /\ UNCHANGED <<redactVars, extractVars, scrapeVars>>
    \/ MergeFile /\ UNCHANGED <<redactVars, extractVars, scrapeVars>>
    \/ MergeFail /\ UNCHANGED <<redactVars, extractVars, scrapeVars>>
    \/ MergeReport /\ UNCHANGED <<redactVars, extractVars, scrapeVars>>

SpecMerge == InitMerge /\ [][NextMerge]_vars

(***************************************************************************)
(* Properties of redact_text (SpecRedact).                                 *)
(***************************************************************************)
\* C5: redact_text is idempotent: for every input text t, empty and missing
\* included, redact_text(redact_text(t)) = redact_text(t).
C5_RedactIdempotent == rPc = "twice" => rTwice = rOnce

(***************************************************************************)
(* Properties of extract_top_comments (SpecExtract).                       *)
(***************************************************************************)
Returned == ePc = "returned"

\* C3: for N >= 0 the result holds at most N records, in non-increasing
\* order of score (None counting as 0), and records of equal score stand in
\* the order the provider listed them.
C3_TopNSortedStable ==
    (Returned /\ eN >= 0) =>
        /\ Len(eOut.result) <= eN
        /\ \A i, j \in 1..Len(eOut.result) :
            i < j =>
                /\ ScoreKey(eOut.result[i]) >= ScoreKey(eOut.result[j])
                /\ ScoreKey(eOut.result[i]) = ScoreKey(eOut.result[j])
                       => eOut.result[i].id < eOut.result[j].id

\* two records of equal score, one of them None, were returned in order
C3_Witness ==
    /\ Returned
    /\ eN = 2
    /\ Len(eOut.result) = 2
    /\ IsNone(eOut.result[1].score)
    /\ eOut.result[2].score = Some(0)

\* a body that is "[deleted]" or "[removed]" once trimmed and lowercased
SentinelBody(c) ==
    /\ ~c.more
    /\ ~IsNone(c.body)
    /\ Lower(Strip(c.body[1])) \in Sentinels

\* C4: a top-level comment whose body, trimmed and lowercased, equals
\* "[deleted]" or "[removed]" is absent from the result, whatever its score
\* and whatever N.
C4_SentinelsExcluded ==
    Returned =>
        \A i \in 1..Len(ePost.comments) :
            SentinelBody(ePost.comments[i]) =>
                \A j \in 1..Len(eOut.result) : eOut.result[j].id # i

\* a post whose best-scored comment is " [Removed]\n", next to a kept one
C4_Witness ==
    /\ Returned
    /\ Len(ePost.comments) = 2
    /\ SentinelBody(ePost.comments[1])
    /\ ePost.comments[1].body # Some(Removed)
    /\ ePost.comments[1].body # Some(Deleted)
    /\ ePost.comments[1].score = Some(1)
    /\ Len(eOut.result) = 1
    /\ eOut.result[1].id = 2

\* C6, as claimed: extract_top_comments never raises, whatever fails while
\* expanding, iterating or reading the post's comments.
C6_NeverRaises == ePc # "raised"

\* C6, amended: only a failure of replace_more is swallowed. It is logged as
\* a warning and the call returns the list it returns without that failure;
\* a failure while iterating post.comments leaves the function as an
\* exception.
C6_OnlyReplaceMoreSwallowed ==
    ePc \in { "returned", "raised" } =>
        /\ eOut.raised <=> ePost.commentsFail
        /\ eOut.warned <=> ePost.replaceMoreFails
        /\ Returned =>
             eOut.result =
                 ExtractTopComments([ePost EXCEPT !.replaceMoreFails = FALSE], eN).result

\* replace_more failed and a comment was returned all the same
C6_Witness ==
    /\ Returned
    /\ ePost.replaceMoreFails
    /\ eOut.warned
    /\ Len(eOut.result) >= 1

\* C10: every record returned has a non-empty sanitized body.
C10_NoEmptyBody ==
    Returned => \A j \in 1..Len(eOut.result) : eOut.result[j].body # << >>

(***************************************************************************)
(* Properties of scrape_subreddit (SpecScrape).                            *)
(***************************************************************************)
Running == pc \in { "loop", "done" }

\* the loop body ran on loopPost and found its sanitized title empty
EmptyTitlePost ==
    /\ visited > 0
    /\ ~loopPost.titleRaises
    /\ RedactText(loopPost.title) = << >>

\* C1: no JSONL line and no CSV row is written for a post whose sanitized
\* title is empty; every line and row written has a non-empty title.
C1_EmptyTitleNeverWritten ==
    Running =>
        /\ \A i \in 1..Len(jsonl[1]) : jsonl[1][i].title # << >>
        /\ \A i \in 1..Len(rows) : rows[i].title # << >>
        /\ EmptyTitlePost =>
            /\ \A i \in 1..Len(jsonl[1]) : jsonl[1][i].id # loopPost.id
            /\ \A i \in 1..Len(rows) : rows[i].id # loopPost.id
        /\ ~IsNone(csv) => \A i \in 1..Len(csv[1]) : csv[1][i].title # << >>

\* a post titled "[deleted] " was passed over while the file was open, after
\* another post was written
C1_Witness ==
    /\ pc = "loop"
    /\ ~jsonlClosed
    /\ count >= 1
    /\ EmptyTitlePost
    /\ ~IsNone(loopPost.title)
    /\ ~loopPost.commentsFail

\* C2: the CSV export has as many rows as the JSONL file has lines, and both
\* equal the logged count, whatever posts succeeded or failed.
C2_SinksInSync ==
    /\ Running => Len(rows) = Len(jsonl[1]) /\ count = Len(jsonl[1])
    /\ pc = "done" =>
        /\ csv = Some(rows)
        /\ Len(csv[1]) = Len(jsonl[1])
        /\ saved = Some(Len(jsonl[1]))

\* a finished run in which a post was written, one failed and a later one
\* met the closed file
C2_Witness ==
    /\ pc = "done"
    /\ count >= 1
    /\ Len(errors) >= 2
    /\ errors[Len(errors)].cause = "closed"

C9_NoWritesAfterError ==
    /\ [](errors # << >> => Running /\ jsonlClosed)
    /\ [][errors # << >> =>
            /\ jsonl' = jsonl
            /\ rows' = rows
            /\ count' = count
            /\ pc' \in { "loop", "done" }]_vars
    /\ [](pc = "done" => csv = Some(rows))

\* a finished run: post 1 written, post 2 failed, post 3 with a good title
\* visited and lost to the closed file
C9_Witness ==
    /\ pc = "done"
    /\ visited = 3
    /\ Len(jsonl[1]) = 1
    /\ Len(errors) = 2
    /\ errors[1].id = 2
    /\ errors[1].cause # "closed"
    /\ errors[2] = [id |-> 3, cause |-> "closed"]
    /\ csv = Some(rows)

(***************************************************************************)
(* Properties of dataset_merger.py (SpecMerge).                            *)
(***************************************************************************)
\* every input file, followed by "\n", in list order
Verbatim == Concat([i \in 1..NumFiles |-> disk[i][1] \o LF])

\* the same, with each file's text as text mode reads it
AsRead == Concat([i \in 1..NumFiles |-> ReadText(disk[i][1]) \o LF])

NoCarriageReturn ==
    \A i \in 1..NumFiles : \A k \in 1..Len(disk[i][1]) : disk[i][1][k] # "\r"

\* C7, as claimed: with every input readable the output is the
\* concatenation of the inputs' full contents, each followed by one "\n",
\* and the count reported is the number of files.
C7_VerbatimConcatenation ==
    mPc = "done" => outfile = Some(Verbatim) /\ printed = Some(NumFiles)

\* C7, amended: with every input readable the output, read back in text
\* mode, is the concatenation in list order of each input's text as text
\* mode reads it ("\r\n" and "\r" read as "\n"), each followed by one "\n";
\* it is the verbatim concatenation when no input holds a carriage return
\* and the platform writes "\n" unchanged; the count reported is the number
\* of files.
C7_ConcatenationAsRead ==
    mPc = "done" =>
        /\ \A i \in 1..NumFiles : ~IsNone(disk[i])
        /\ ReadText(outfile[1]) = AsRead
        /\ (NoCarriageReturn /\ linesep = LF) => outfile = Some(Verbatim)
        /\ printed = Some(NumFiles)

\* a finished merge of files without carriage returns, not all empty, on a
\* platform that writes "\n" unchanged
C7_Witness ==
    /\ mPc = "done"
    /\ linesep = LF
    /\ NoCarriageReturn
    /\ disk[1] = Some(<<"a", "\n">>)
    /\ disk[2] = Some(<< >>)
    /\ outfile = Some(Verbatim)

====
